---- MODULE Spec2Model ----
(***************************************************************************)
(* panoramisk: the AMI session engine (manager.py) and the structured      *)
(* record (message.py) as a state machine.                                 *)
(*                                                                         *)
(* The event loop is single threaded: every handler below is one atomic    *)
(* step.  call_later timers are kept in `timers`; callbacks handed to      *)
(* call_soon / add_done_callback / ensure_future run in a later step.      *)
(***************************************************************************)
EXTENDS Integers, Sequences, FiniteSets, TLC

(* ------------------------------ bounds -------------------------------- *)
MaxConnects == 2
MaxActions == 3
MaxTasks == 1
MaxRecs == 2
MaxOutstanding == 2
MaxRegistrations == 3
MaxLines == 3

MaxTimers == 4 * MaxConnects + 2

None == 0

(* ---------------------- configuration (Manager.defaults) --------------- *)
ping_delay == 10
ping_interval == 10
reconnect_timeout == 2
forgetable_actions == {"ping", "login"}

(* Message.success_responses *)
success_responses == {"Success", "Follows", "Goodbye"}

VARIABLES
    username,             \* 'username' in self.config
    connected,            \* self._connected
    protocol,             \* self.protocol: None or the installed protocol
    open,                 \* protocols whose transport is open
    attempts,             \* connection attempts whose outcome is not processed yet
    nconnects,            \* connect() calls so far
    authenticated,        \* self.authenticated
    authenticated_future, \* self.authenticated_future
    login_done,           \* the Login future's done-callback, once scheduled
    awaiting_actions,     \* self.awaiting_actions
    actions,              \* every Action created so far, by identity
    responses,            \* self.responses (identities awaiting a response)
    sent,                 \* the calls of protocol.send, in order
    pinger,               \* self.pinger: None or a timer handle
    timers,               \* the loop's pending call_later timers
    patterns,             \* self.patterns
    callbacks,            \* self.callbacks
    tasks,                \* send_awaiting_actions coroutines not run yet
    matches,              \* what the last dispatch returned
    invoked,              \* the callbacks the last dispatch called, in order
    soon,                 \* the hooks the last handler gave to call_soon
    raised,               \* the exception the last call raised to its caller
    loss_pending,         \* a loss was notified and no connect succeeded since
    shutdown,             \* close() was called and connect() was not called since
    last                  \* the last handler that ran

vars == <<username, connected, protocol, open, attempts, nconnects,
          authenticated, authenticated_future, login_done, awaiting_actions,
          actions, responses, sent, pinger, timers, patterns, callbacks,
          tasks, matches, invoked, soon, raised, loss_pending, shutdown,
          last>>

lifecycle == <<connected, protocol, open, attempts, nconnects, authenticated,
               authenticated_future, login_done, pinger, timers, loss_pending,
               shutdown>>
traffic == <<awaiting_actions, actions, responses, sent>>
router == <<patterns, callbacks>>
dispatched == <<matches, invoked>>

(* ------------------------------ strings -------------------------------- *)
\* Event type names and glob patterns are sequences of characters.
FullyBooted == <<"F", "u", "l", "l", "y", "B", "o", "o", "t", "e", "d">>

\* str.lower() on the action names of the model
lower(s) ==
    CASE s = "Login" -> "login"
      [] s = "Ping" -> "ping"
      [] s = "Status" -> "status"
      [] s = "Event" -> "event"
      [] s = "Response" -> "response"
      [] s = "Variable" -> "variable"
      [] s = "Result" -> "result"
      [] s = "Message" -> "message"
      [] OTHER -> s

(* ------------------------------ timers --------------------------------- *)
TimerIds(ts) == {t.id : t \in ts}

FreeId(ts) ==
    CHOOSE i \in 1..MaxTimers :
        /\ i \notin TimerIds(ts)
        /\ \A j \in 1..(i - 1) : j \in TimerIds(ts)

\* loop.call_later(delay, fn): the timers afterwards
call_later(ts, delay, fn) == ts \cup {[id |-> FreeId(ts), fn |-> fn, delay |-> delay]}

\* TimerHandle.cancel()
cancel(ts, h) == {t \in ts : t.id # h}

PingTimers == {t \in timers : t.fn = "ping"}
ConnectTimers == {t \in timers : t.fn = "connect"}

(* --------------------------- Structured Record ------------------------- *)
\* A Message is a function from lower-cased header names to values.
has(m, k) == k \in DOMAIN m

\* CaseInsensitiveDict attribute access: an unknown header reads as ''
attr(m, k) == IF has(m, k) THEN m[k] ELSE ""

\* the action id looked at first
id_actionid_first(m) ==
    IF has(m, "actionid") THEN m["actionid"]
    ELSE IF has(m, "commandid") THEN m["commandid"]
    ELSE None

\* Message.id
id(m) ==
    IF has(m, "commandid") THEN m["commandid"]
    ELSE IF has(m, "actionid") THEN m["actionid"]
    ELSE None

\* an event judged by a response it does not have
success_by_response(m) ==
    IF attr(m, "response") \in success_responses THEN TRUE
    ELSE FALSE

\* Message.success
success(m) ==
    IF has(m, "event") THEN TRUE
    ELSE IF attr(m, "response") \in success_responses THEN TRUE
    ELSE FALSE

(* ------------------------- Wire Message Decoder ------------------------ *)
\* The block is given as line.split(EOL) leaves it: the sequence of its
\* lines.  A line is the sequence of its pieces, every ": " a piece of its
\* own and no other piece containing ": "; the empty line is <<>>.
sep == ": "

\* the text of a line
RECURSIVE join(_)
join(pieces) == IF pieces = <<>> THEN "" ELSE Head(pieces) \o join(Tail(pieces))

\* ": " in mline
contains_sep(mline) == \E i \in 1..Len(mline) : mline[i] = sep

\* mline.split(": ", 1), for a line containing ": "
split(mline) ==
    LET i == CHOOSE i \in 1..Len(mline) :
                 mline[i] = sep /\ \A j \in 1..(i - 1) : mline[j] # sep
    IN [k |-> join(SubSeq(mline, 1, i - 1)),
        v |-> join(SubSeq(mline, i + 1, Len(mline)))]

\* quoted_keys
quoted_keys == {"result"}

\* the first lines of the blocks that carry a body
has_body == {<<"Response", sep, "Follows">>, <<"Response", sep, "Fail">>,
             <<"Event", sep, "ReceivedSMS">>}
ReceivedSMS == <<"Event", sep, "ReceivedSMS">>

\* str.startswith on the words of the model
word_startswith(w, p) == w = p \/ <<w, p>> \in {<<"Failure", "Fail">>}

\* mline.startswith(prefix), the prefix being `Key: word`
startswith(mline, prefix) ==
    /\ Len(mline) >= 3
    /\ mline[1] = prefix[1]
    /\ mline[2] = sep
    /\ word_startswith(mline[3], prefix[3])

\* urllib.parse.unquote, unquote_plus and str.strip on the values of the model
BOM == "<U+FEFF>"
unquote(s) ==
    CASE s = "200%20ok%0A" -> "200 ok\n"
      [] OTHER -> s
strip(s) ==
    CASE s = "200 ok\n" -> "200 ok"
      [] OTHER -> s
unquote_plus(s) ==
    CASE s = "%EF%BB%BFhi+there" -> BOM \o "hi there"
      [] OTHER -> s

\* content[1:] if content.startswith("\ufeff")
strip_bom(s) == IF s = BOM \o "hi there" THEN "hi there" ELSE s

\* mlines.pop()
pop_last(mlines) ==
    [item |-> mlines[Len(mlines)], mlines |-> SubSeq(mlines, 1, Len(mlines) - 1)]

\* the last line taken as the body, blank or not
skip_none(content, mlines) == [raised |-> "none", content |-> content, mlines |-> mlines]

\* while not content and mlines: content = mlines.pop()
RECURSIVE skip_blank(_, _)
skip_blank(content, mlines) ==
    IF content = "" /\ mlines # <<>>
    THEN skip_blank(join(pop_last(mlines).item), pop_last(mlines).mlines)
    ELSE [raised |-> "none", content |-> content, mlines |-> mlines]

\* from_line, lines 125-138: the body and the lines left for the headers
take_body(mlines) ==
    IF \E p \in has_body : startswith(mlines[1], p)
    THEN IF mlines[1] = ReceivedSMS
         THEN LET m1 == pop_last(mlines).mlines
              IN IF m1 = <<>>
                 THEN [raised |-> "IndexError", content |-> "", mlines |-> m1]
                 ELSE LET c == pop_last(m1).item
                          m2 == pop_last(m1).mlines
                      IN IF ~contains_sep(c)
                         THEN [raised |-> "ValueError", content |-> "", mlines |-> m2]
                         ELSE skip_blank(strip_bom(unquote_plus(split(c).v)), m2)
         ELSE skip_blank(join(pop_last(mlines).item), pop_last(mlines).mlines)
    ELSE [raised |-> "none", content |-> "", mlines |-> mlines]

\* from_line, lines 140-151: one line added to the headers dict.  The dict is
\* the sequence of its items in insertion order; an item holds its values as a
\* sequence, and whether the value is a list.
add_header(headers, mline) ==
    IF ~contains_sep(mline) THEN headers
    ELSE LET k == split(mline).k
             v == IF lower(k) \in quoted_keys
                  THEN strip(unquote(split(mline).v))
                  ELSE split(mline).v
         IN IF \E i \in 1..Len(headers) : headers[i].k = k
            THEN LET i == CHOOSE i \in 1..Len(headers) : headers[i].k = k
                 IN [headers EXCEPT ![i] = [k |-> k, list |-> TRUE, v |-> Append(@.v, v)]]
            ELSE Append(headers, [k |-> k, list |-> FALSE, v |-> <<v>>])

\* for mline in mlines
RECURSIVE parse_headers(_, _, _)
parse_headers(mlines, i, headers) ==
    IF i > Len(mlines) THEN headers
    ELSE parse_headers(mlines, i + 1, add_header(headers, mlines[i]))

\* k in headers
in_headers(headers, k) == \E i \in 1..Len(headers) : headers[i].k = k

\* A record holds a header's value under the lower-cased name: a string, or
\* for a list the string LIST, the items of the list being held under the
\* name followed by "[]" (a string and a sequence do not compare).
LIST == "<list>"
is_list(m, k) == has(m, k) /\ m[k] = LIST
items(m, k) == m[k \o "[]"]

\* Message(headers, content): CaseInsensitiveDict(headers, content=content);
\* of two names equal but for their case the later item is kept, and the
\* content is held under 'content'
Message(headers, content) ==
    LET names == {lower(headers[i].k) : i \in 1..Len(headers)}
        item(n) == headers[CHOOSE i \in 1..Len(headers) :
                              /\ lower(headers[i].k) = n
                              /\ \A j \in (i + 1)..Len(headers) : lower(headers[j].k) # n]
        lists == {n \o "[]" : n \in {n \in names : n # "content" /\ item(n).list}}
    IN [n \in names \cup lists \cup {"content"} |->
          IF n = "content" THEN content
          ELSE IF n \in names
               THEN IF item(n).list THEN LIST ELSE item(n).v[1]
               ELSE item(CHOOSE h \in names : h \o "[]" = n).v]

\* Message.from_line(line): what the call raises and, when it raises nothing,
\* whether it returns a record, and the record
decode(mlines) ==
    LET b == take_body(mlines)
        headers == parse_headers(b.mlines, 1, <<>>)
    IN IF b.raised # "none"
       THEN [line |-> mlines, raised |-> b.raised, record |-> FALSE]
       ELSE IF in_headers(headers, "Event") \/ in_headers(headers, "Response")
            THEN [line |-> mlines, raised |-> "none", record |-> TRUE,
                  message |-> Message(headers, b.content)]
            ELSE [line |-> mlines, raised |-> "none", record |-> FALSE]

(* ------------------------------- Actions ------------------------------- *)
Ids == 1..MaxActions

\* actions.Action(data, as_list=as_list): a fresh result sink
Action(name, as_list) ==
    [action |-> name, as_list |-> as_list, state |-> "pending",
     recs |-> <<>>, callback |-> FALSE]

\* Future.done()
done(a) == a.state # "pending"

\* protocol.send(action, as_list): the transport is handed the action and the
\* action's identity is registered in the response table.
protocol_send(log, p, i, as_list) == Append(log, [protocol |-> p, id |-> i, as_list |-> as_list])

\* AMIProtocol.close()
protocol_close(o, p) == IF p # None THEN o \ {p} ELSE o

(* ------------------------ connection lifecycle ------------------------- *)
\* connect(): a connection attempt is started; connection_made gets its outcome
Connect ==
    /\ nconnects < MaxConnects
    /\ nconnects' = nconnects + 1
    /\ attempts' = attempts + 1

\* the user calls connect()
connect ==
    /\ Connect
    /\ last' = [op |-> "connect", arg |-> "user"]
    /\ soon' = <<>>
    /\ raised' = "none"
    /\ shutdown' = FALSE
    /\ UNCHANGED <<username, connected, protocol, open, authenticated,
                   authenticated_future, login_done, pinger, timers,
                   loss_pending, traffic, router, tasks, dispatched>>

\* loop.call_later(self.reconnect_timeout, self.connect) fires
reconnect(t) ==
    /\ t \in ConnectTimers
    /\ Connect
    /\ timers' = timers \ {t}
    /\ last' = [op |-> "connect", arg |-> "timer"]
    /\ soon' = <<>>
    /\ raised' = "none"
    /\ UNCHANGED <<username, connected, protocol, open, authenticated,
                   authenticated_future, login_done, pinger,
                   loss_pending, traffic, router, tasks, dispatched, shutdown>>

\* the flag left as it was
oserror_connected_kept(c) == c

\* except OSError: the connectedness afterwards
oserror_connected(c) == IF c THEN FALSE ELSE c

\* except OSError: call_later(self.reconnect_timeout, self.connect)
oserror_timers(ts) == call_later(ts, reconnect_timeout, "connect")

\* connection_made, the else branch: self.pinger = call_later(ping_delay, ping)
connection_made_pinger(ts, h) ==
    [timers |-> call_later(ts, ping_delay, "ping"), pinger |-> FreeId(ts)]

\* connection_made(f), f.result() raising OSError
connection_failed ==
    /\ attempts > 0
    /\ attempts' = attempts - 1
    /\ open' = protocol_close(open, protocol)
    /\ connected' = oserror_connected(connected)
    /\ timers' = oserror_timers(timers)
    /\ last' = [op |-> "connection_made", arg |-> "OSError"]
    /\ soon' = <<>>
    /\ raised' = "none"
    /\ UNCHANGED <<username, protocol, nconnects, authenticated,
                   authenticated_future, login_done, pinger, loss_pending,
                   traffic, router, tasks, dispatched, shutdown>>

\* the flag left as the connection before set it
connection_made_authenticated_kept(a) == a

\* connection_made, 'username' in self.config: self.authenticated = False
connection_made_authenticated(a) == FALSE

\* the response table kept across the connect
connection_made_responses_kept(rs) == rs

\* connection_made, the else branch: self.responses = self.protocol.responses = {}
connection_made_responses(rs) == {}

\* the old transport left open
connection_made_open_kept(o, old, new) == o \cup {new}

\* connection_made: the installed protocol is closed, then the new one installed
connection_made_open(o, old, new) == protocol_close(o, old) \cup {new}

\* connection_made(f), f.result() returning (transport, protocol)
connection_made ==
    /\ attempts > 0
    /\ username => Len(actions) < MaxActions
    /\ attempts' = attempts - 1
    /\ LET p == protocol + 1
           i == Len(actions) + 1
       IN /\ open' = connection_made_open(open, protocol, p)
          /\ connected' = TRUE
          /\ soon' = <<"on_connect">>
          /\ protocol' = p
          /\ IF username
             THEN /\ authenticated' = connection_made_authenticated(authenticated)
                  /\ actions' = Append(actions, [Action("Login", FALSE) EXCEPT !.callback = TRUE])
                  /\ sent' = protocol_send(sent, p, i, FALSE)
                  /\ responses' = connection_made_responses(responses) \cup {i}
                  /\ authenticated_future' = i
             ELSE /\ responses' = connection_made_responses(responses)
                  /\ UNCHANGED <<authenticated, actions, sent, authenticated_future>>
    /\ timers' = connection_made_pinger(timers, pinger).timers
    /\ pinger' = connection_made_pinger(timers, pinger).pinger
    /\ loss_pending' = FALSE
    /\ last' = [op |-> "connection_made", arg |-> "ok"]
    /\ raised' = "none"
    /\ UNCHANGED <<username, nconnects, login_done, awaiting_actions,
                   router, tasks, dispatched, shutdown>>

\* the keepalive timer started again without cancelling the pending one
login_pinger_uncancelled(ts, h) ==
    [timers |-> call_later(ts, ping_delay, "ping"), pinger |-> FreeId(ts)]

\* login(future): the keepalive timer is cancelled and started again
login_pinger(ts, h) ==
    LET kept == IF h # None THEN cancel(ts, h) ELSE ts
    IN [timers |-> call_later(kept, ping_delay, "ping"), pinger |-> FreeId(kept)]

\* login(future), the done-callback of the Login action's future
login ==
    /\ login_done # None
    /\ login_done' = None
    /\ authenticated_future' = None
    /\ LET resp == actions[login_done].recs[1]
       IN /\ authenticated' = success(resp)
          /\ soon' = IF success(resp) THEN <<"on_login">> ELSE <<>>
          /\ last' = [op |-> "login", arg |-> attr(resp, "response")]
    /\ timers' = login_pinger(timers, pinger).timers
    /\ pinger' = login_pinger(timers, pinger).pinger
    /\ raised' = "none"
    /\ UNCHANGED <<username, connected, protocol, open, attempts, nconnects,
                   loss_pending, traffic, router, tasks, dispatched, shutdown>>

\* ping(): self.pinger = call_later(ping_interval, ping)
ping_pinger(ts) == [timers |-> call_later(ts, ping_interval, "ping"), pinger |-> FreeId(ts)]

\* ping(), a keepalive timer firing
ping(t) ==
    /\ t \in PingTimers
    /\ Len(actions) < MaxActions
    /\ LET ts == timers \ {t}
           i == Len(actions) + 1
       IN /\ timers' = ping_pinger(ts).timers
          /\ pinger' = ping_pinger(ts).pinger
          /\ actions' = Append(actions, Action("Ping", FALSE))
          /\ sent' = protocol_send(sent, protocol, i, FALSE)
          /\ responses' = responses \cup {i}
    /\ last' = [op |-> "ping", arg |-> t.id]
    /\ soon' = <<>>
    /\ raised' = "none"
    /\ UNCHANGED <<username, connected, protocol, open, attempts, nconnects,
                   authenticated, authenticated_future, login_done,
                   loss_pending, awaiting_actions, router, tasks, dispatched, shutdown>>

\* close(): the keepalive timer is cancelled
close_pinger(ts, h) ==
    [timers |-> IF h # None THEN cancel(ts, h) ELSE ts, pinger |-> None]

\* close()
close ==
    /\ timers' = close_pinger(timers, pinger).timers
    /\ pinger' = close_pinger(timers, pinger).pinger
    /\ open' = protocol_close(open, protocol)
    /\ last' = [op |-> "close", arg |-> "user"]
    /\ soon' = <<>>
    /\ raised' = "none"
    /\ shutdown' = TRUE
    /\ UNCHANGED <<username, connected, protocol, attempts, nconnects,
                   authenticated, authenticated_future, login_done,
                   loss_pending, traffic, router, tasks, dispatched>>

\* connection_lost(exc): the keepalive timer is cancelled, a reconnect scheduled
connection_lost_timers(ts, h) ==
    LET kept == IF h # None THEN cancel(ts, h) ELSE ts
    IN [timers |-> call_later(kept, reconnect_timeout, "connect"), pinger |-> None]

\* connection_lost(exc), the open transport of the installed protocol failing.
\* Callbacks run in the order they were scheduled: a Login done-callback that
\* the transport's reader scheduled runs before the loss notification.
connection_lost ==
    /\ protocol \in open
    /\ login_done = None
    /\ open' = open \ {protocol}
    /\ connected' = FALSE
    /\ soon' = <<"on_disconnect">>
    /\ timers' = connection_lost_timers(timers, pinger).timers
    /\ pinger' = connection_lost_timers(timers, pinger).pinger
    /\ loss_pending' = TRUE
    /\ last' = [op |-> "connection_lost", arg |-> "exc"]
    /\ raised' = "none"
    /\ UNCHANGED <<username, protocol, attempts, nconnects, authenticated,
                   authenticated_future, login_done, traffic, router, tasks,
                   dispatched, shutdown>>

(* ----------------------------- Event Router ---------------------------- *)
\* the characters of stuff = pat[i:j], without a leading '!'
SetChars(pat, i, j) ==
    {pat[k] : k \in (IF pat[i] = "!" THEN i + 1 ELSE i)..(j - 1)}

\* fnmatch.translate, the scan for the ']' closing the '[' before position i
RECURSIVE closing(_, _)
closing(pat, j) == IF j <= Len(pat) /\ pat[j] # "]" THEN closing(pat, j + 1) ELSE j

bracket_end(pat, i) ==
    LET j1 == IF i <= Len(pat) /\ pat[i] = "!" THEN i + 1 ELSE i
        j2 == IF j1 <= Len(pat) /\ pat[j1] = "]" THEN j1 + 1 ELSE j1
    IN closing(pat, j2)

\* fnmatch.translate(pattern): the regular expression, one token per atom
RECURSIVE translate(_, _)
translate(pat, i) ==
    IF i > Len(pat) THEN <<>>
    ELSE LET c == pat[i]
         IN CASE c = "*" -> <<[t |-> "star"]>> \o translate(pat, i + 1)
              [] c = "?" -> <<[t |-> "any"]>> \o translate(pat, i + 1)
              [] c = "[" ->
                    LET j == bracket_end(pat, i + 1)
                    IN IF j > Len(pat)
                       THEN <<[t |-> "lit", c |-> "["]>> \o translate(pat, i + 1)
                       ELSE <<[t |-> "set", neg |-> (pat[i + 1] = "!"),
                               cs |-> SetChars(pat, i + 1, j)]>>
                            \o translate(pat, j + 1)
              [] OTHER -> <<[t |-> "lit", c |-> c]>> \o translate(pat, i + 1)

\* regexp.match(string) for the expression (?s:...)\Z
RECURSIVE regexp_match(_, _, _, _)
regexp_match(re, k, str, p) ==
    IF k > Len(re) THEN p > Len(str)
    ELSE LET a == re[k]
         IN CASE a.t = "star" ->
                    \E q \in p..(Len(str) + 1) : regexp_match(re, k + 1, str, q)
              [] a.t = "any" -> p <= Len(str) /\ regexp_match(re, k + 1, str, p + 1)
              [] a.t = "set" ->
                    /\ p <= Len(str)
                    /\ (str[p] \in a.cs) # a.neg
                    /\ regexp_match(re, k + 1, str, p + 1)
              [] OTHER ->
                    /\ p <= Len(str)
                    /\ str[p] = a.c
                    /\ regexp_match(re, k + 1, str, p + 1)

\* re.compile(fnmatch.translate(pattern))
compile(pattern) == translate(pattern, 1)

\* the patterns and the event names of the model
Patterns == {FullyBooted, <<"F", "*">>, <<"*">>, <<"?">>, <<"[", "!", "F", "]">>}
EventNames == {FullyBooted, <<"F">>, <<"P">>}
Callbacks == {"cb1", "cb2"}

\* an entry appended, and the matcher compiled, at every registration
register_patterns_always(pats, cbs, pattern) ==
    Append(pats, [pattern |-> pattern, regexp |-> compile(pattern)])

\* _register_event(callback): the subscription list afterwards
register_patterns(pats, cbs, pattern) ==
    IF cbs[pattern] = <<>>
    THEN Append(pats, [pattern |-> pattern, regexp |-> compile(pattern)])
    ELSE pats

\* _register_event(callback): the callback lists afterwards
register_callbacks(cbs, pattern, callback) ==
    [cbs EXCEPT ![pattern] = Append(@, callback)]

\* the callbacks registered over all patterns
Registrations(cbs) ==
    LET RECURSIVE total(_)
        total(ps) == IF ps = {} THEN 0
                     ELSE LET q == CHOOSE q \in ps : TRUE
                          IN Len(cbs[q]) + total(ps \ {q})
    IN total(DOMAIN cbs)

\* only the first callback of the pattern called
call_first(cbs, pattern, k, inv) ==
    IF cbs[pattern] = <<>> THEN inv
    ELSE Append(inv, [pattern |-> pattern, k |-> 1, callback |-> cbs[pattern][1]])

\* dispatch: the inner loop, `for callback in self.callbacks[pattern]`
RECURSIVE call_callbacks(_, _, _, _)
call_callbacks(cbs, pattern, k, inv) ==
    IF k > Len(cbs[pattern]) THEN inv
    ELSE call_callbacks(cbs, pattern, k + 1,
                        Append(inv, [pattern |-> pattern, k |-> k, callback |-> cbs[pattern][k]]))

\* dispatch: the outer loop, `for pattern, regexp in self.patterns`
RECURSIVE dispatch_loop(_, _, _, _, _)
dispatch_loop(pats, cbs, name, i, acc) ==
    IF i > Len(pats) THEN acc
    ELSE IF regexp_match(pats[i].regexp, 1, name, 1)
         THEN dispatch_loop(pats, cbs, name, i + 1,
                            [matches |-> Append(acc.matches, pats[i].pattern),
                             invoked |-> call_callbacks(cbs, pats[i].pattern, 1, acc.invoked)])
         ELSE dispatch_loop(pats, cbs, name, i + 1, acc)

\* the coroutines dispatch hands to ensure_future
Coroutines(inv) == {k \in 1..Len(inv) : inv[k].callback = "send_awaiting_actions"}

\* dispatch(event)
dispatch(event) ==
    LET r == dispatch_loop(patterns, callbacks, event["event"], 1,
                           [matches |-> <<>>, invoked |-> <<>>])
    IN /\ tasks + Cardinality(Coroutines(r.invoked)) <= MaxTasks
       /\ matches' = r.matches
       /\ invoked' = r.invoked
       /\ tasks' = tasks + Cardinality(Coroutines(r.invoked))

(* --------------------- submission and correlation ---------------------- *)
\* send_action(action, as_list) by a caller, the action given as a dict
send_action(name, as_list) ==
    /\ last' = [op |-> "send_action", arg |-> name]
    /\ soon' = <<>>
    /\ IF protocol = None
       THEN /\ raised' = "AttributeError"
            /\ UNCHANGED traffic
       ELSE /\ Len(actions) < MaxActions
            /\ raised' = "none"
            /\ actions' = Append(actions, Action(name, as_list))
            /\ sent' = protocol_send(sent, protocol, Len(actions) + 1, as_list)
            /\ responses' = responses \cup {Len(actions) + 1}
            /\ UNCHANGED awaiting_actions
    /\ UNCHANGED <<username, lifecycle, router, tasks, dispatched>>

\* an action put on the awaiting queue while the engine is not connected
queue_action(name, as_list) ==
    /\ ~connected
    /\ Len(actions) < MaxActions
    /\ actions' = Append(actions, Action(name, as_list))
    /\ awaiting_actions' = Append(awaiting_actions, Len(actions) + 1)
    /\ last' = [op |-> "queue_action", arg |-> name]
    /\ soon' = <<>>
    /\ raised' = "none"
    /\ UNCHANGED <<username, lifecycle, responses, sent, router, tasks, dispatched>>

\* the caller of a queued action gives up: its result sink is cancelled
cancel_action(i) ==
    /\ \E k \in 1..Len(awaiting_actions) : awaiting_actions[k] = i
    /\ ~done(actions[i])
    /\ actions' = [actions EXCEPT ![i].state = "cancelled"]
    /\ last' = [op |-> "cancel_action", arg |-> i]
    /\ soon' = <<>>
    /\ raised' = "none"
    /\ UNCHANGED <<username, lifecycle, awaiting_actions, responses, sent,
                   router, tasks, dispatched>>

\* the newest action taken first
popright(q) == [item |-> q[Len(q)], rest |-> SubSeq(q, 1, Len(q) - 1)]

\* send_awaiting_actions: `action = self.awaiting_actions.popleft()`
popleft(q) == [item |-> Head(q), rest |-> Tail(q)]

\* send_awaiting_actions: the two conditions guarding send_action
replayed(a) ==
    IF lower(a.action) \notin forgetable_actions
    THEN IF ~done(a) THEN TRUE ELSE FALSE
    ELSE FALSE

\* the flag dropped on the way to send_action
replayed_as_list_dropped(a) == FALSE

\* send_awaiting_actions: the as_list the action is sent again with
replayed_as_list(a) == a.as_list

\* send_awaiting_actions: `while self.awaiting_actions`
RECURSIVE drain(_, _)
drain(q, acc) ==
    IF q = <<>> THEN [acc EXCEPT !.queue = q]
    ELSE LET pop == popleft(q)
             a == actions[pop.item]
         IN IF replayed(a)
            THEN IF protocol = None
                 THEN [acc EXCEPT !.queue = pop.rest, !.raised = "AttributeError"]
                 ELSE drain(pop.rest,
                            [acc EXCEPT !.sent = protocol_send(@, protocol, pop.item,
                                                               replayed_as_list(a)),
                                        !.responses = @ \cup {pop.item}])
            ELSE drain(pop.rest, acc)

\* send_awaiting_actions(), the coroutine dispatch scheduled
send_awaiting_actions ==
    /\ tasks > 0
    /\ tasks' = tasks - 1
    /\ LET r == drain(awaiting_actions,
                      [queue |-> awaiting_actions, sent |-> sent,
                       responses |-> responses, raised |-> "none"])
       IN /\ awaiting_actions' = r.queue
          /\ sent' = r.sent
          /\ responses' = r.responses
          /\ raised' = r.raised
          /\ last' = [op |-> "send_awaiting_actions",
                      arg |-> <<Len(awaiting_actions), Len(r.sent) - Len(sent)>>]
    /\ soon' = <<>>
    /\ UNCHANGED <<username, lifecycle, actions, router, dispatched>>

\* the inbound records of the model
Responses ==
    {[response |-> "Success", actionid |-> i] : i \in Ids}
    \cup {[response |-> "Success", actionid |-> 1, commandid |-> 2],
          [response |-> "Success"]}
Events ==
    {[event |-> <<"P">>]}
Messages == Responses \cup Events

\* a record arrives on the installed protocol's open transport: it completes
\* (for as_list: is appended to) the sink registered under its identity, an
\* event without one is dispatched, anything else is dropped
handle_message(m, eol) ==
    /\ protocol \in open
    /\ last' = [op |-> "handle_message", arg |-> m]
    /\ soon' = <<>>
    /\ raised' = "none"
    /\ IF id(m) \in responses
       THEN LET i == id(m)
                a == actions[i]
                complete == ~a.as_list \/ eol
            IN /\ ~done(a)
               /\ Len(a.recs) < MaxRecs
               /\ a.callback /\ complete => login_done = None
               /\ actions' = [actions EXCEPT ![i].recs = Append(@, m),
                                             ![i].state = IF complete THEN "done" ELSE @]
               /\ responses' = IF complete THEN responses \ {i} ELSE responses
               /\ login_done' = IF a.callback /\ complete THEN i ELSE login_done
               /\ UNCHANGED <<tasks, dispatched>>
       ELSE IF has(m, "event")
            THEN /\ dispatch(m)
                 /\ UNCHANGED <<actions, responses, login_done>>
            ELSE UNCHANGED <<actions, responses, login_done, tasks, dispatched>>
    /\ UNCHANGED <<username, connected, protocol, open, attempts, nconnects,
                   authenticated, authenticated_future, pinger, timers,
                   loss_pending, awaiting_actions, sent, router, shutdown>>

(* ------------------------------ behaviours ----------------------------- *)
\* Manager(**config): the session before any call
InitSession ==
    /\ username \in BOOLEAN
    /\ connected = FALSE
    /\ protocol = None
    /\ open = {}
    /\ attempts = 0
    /\ nconnects = 0
    /\ authenticated = FALSE
    /\ authenticated_future = None
    /\ login_done = None
    /\ awaiting_actions = <<>>
    /\ actions = <<>>
    /\ responses = {}
    /\ sent = <<>>
    /\ pinger = None
    /\ timers = {}
    /\ patterns = register_patterns(<<>>, [p \in Patterns |-> <<>>], FullyBooted)
    /\ callbacks = register_callbacks([p \in Patterns |-> <<>>], FullyBooted,
                                      "send_awaiting_actions")
    /\ tasks = 0
    /\ matches = <<>>
    /\ invoked = <<>>
    /\ soon = <<>>
    /\ raised = "none"
    /\ loss_pending = FALSE
    /\ shutdown = FALSE

Init ==
    /\ InitSession
    /\ last = [op |-> "init", arg |-> "init"]

\* the responses the peer can give to the actions it was sent
Answers ==
    {[response |-> r, actionid |-> i] : r \in {"Success", "Error"}, i \in responses}

\* The connection lifecycle: connects, outcomes, timers, losses and close,
\* with the peer answering the Login and the keepalives.
Next ==
    \/ connect
    \/ \E t \in timers : reconnect(t)
    \/ connection_failed
    \/ connection_made
    \/ login
    \/ \E t \in timers : ping(t)
    \/ close
    \/ connection_lost
    \/ \E m \in Answers : handle_message(m, TRUE)

Spec == Init /\ [][Next]_vars

\* a session without credentials
InitAnonymous == Init /\ ~username

\* the actions callers queue: a streaming one and a forgettable one
QueuedActions == {<<"Status", TRUE>>, <<"Ping", FALSE>>}

\* The awaiting queue: callers submitting, queueing and abandoning actions
\* over connects and losses, the peer announcing FullyBooted; no timer fires.
NextQueue ==
    \/ connect
    \/ connection_made
    \/ connection_lost
    \/ send_action("Status", FALSE)
    \/ \E a \in QueuedActions : queue_action(a[1], a[2])
    \/ \E i \in Ids : cancel_action(i)
    \/ handle_message([event |-> FullyBooted], TRUE)
    \/ send_awaiting_actions

SpecQueue == InitAnonymous /\ [][NextQueue]_vars

\* Correlation: callers submitting actions and the peer sending any record,
\* the last of a response or (to a streaming action) one before the last,
\* over connects and losses; no timer fires.
NextCorrelation ==
    \/ connect
    \/ connection_made
    \/ connection_lost
    \/ Len(actions) < MaxOutstanding /\ \E l \in BOOLEAN : send_action("Status", l)
    \/ \E m \in Messages : handle_message(m, TRUE)
    \/ \E m \in Messages :
           /\ id(m) \in responses
           /\ actions[id(m)].as_list
           /\ handle_message(m, FALSE)

SpecCorrelation == InitAnonymous /\ [][NextCorrelation]_vars

\* the lines and the blocks of the model
Lines ==
    {<<"Response", sep, "Follows">>, <<"Response", sep, "Success">>,
     <<"Response", sep, "Goodbye">>, <<"Response", sep, "Error">>,
     <<"Response", sep, "Failure">>, <<"response", sep, "Error">>,
     <<"Event", sep, "Hangup">>, <<"event", sep, "Hangup">>, ReceivedSMS,
     <<"Variable", sep, "a">>, <<"Variable", sep, "b">>, <<"variable", sep, "c">>,
     <<"Result", sep, "200%20ok%0A">>, <<"Message", sep, "%EF%BB%BFhi+there">>,
     <<"text">>, <<>>}
Blocks == UNION {[1..n -> Lines] : n \in 1..MaxLines}

\* a block read from the transport, not decoded yet
InitDecoder ==
    /\ InitSession
    /\ ~username
    /\ \E mlines \in Blocks : last = [op |-> "line", arg |-> mlines]

\* Message.from_line(line) called on the block
from_line ==
    /\ last.op = "line"
    /\ last' = [op |-> "from_line", arg |-> decode(last.arg)]
    /\ soon' = <<>>
    /\ raised' = decode(last.arg).raised
    /\ UNCHANGED <<username, lifecycle, traffic, router, tasks, dispatched>>

\* The decoder: any block of the model, decoded.
NextDecoder == from_line

SpecDecoder == InitDecoder /\ [][NextDecoder]_vars

\* the responses the peer can give to the Login in progress
LoginAnswers == {m \in Answers : m.actionid = authenticated_future}

\* Authentication: a session with or without credentials; a caller queues an
\* action while the engine is not connected, the peer answers the Login and
\* announces FullyBooted, keepalives tick, connections are lost and made again.
NextLogin ==
    \/ connect
    \/ \E t \in timers : reconnect(t)
    \/ connection_made
    \/ login
    \/ \E t \in timers : ping(t)
    \/ connection_lost
    \/ queue_action("Status", FALSE)
    \/ \E m \in LoginAnswers : handle_message(m, TRUE)
    \/ handle_message([event |-> FullyBooted], TRUE)
    \/ send_awaiting_actions

SpecLogin == Init /\ [][NextLogin]_vars

\* register_event(pattern, callback)
register_event(pattern, callback) ==
    /\ Registrations(callbacks) < MaxRegistrations + 1
    /\ patterns' = register_patterns(patterns, callbacks, pattern)
    /\ callbacks' = register_callbacks(callbacks, pattern, callback)
    /\ last' = [op |-> "register_event",
                arg |-> [pattern |-> pattern, callback |-> callback,
                         returned |-> callback]]
    /\ soon' = <<>>
    /\ raised' = "none"
    /\ UNCHANGED <<username, lifecycle, traffic, tasks, dispatched>>

\* dispatch(event) called with an event of the given type
dispatch_event(name) ==
    /\ dispatch([event |-> name])
    /\ last' = [op |-> "dispatch", arg |-> name]
    /\ soon' = <<>>
    /\ raised' = "none"
    /\ UNCHANGED <<username, lifecycle, traffic, router>>

\* The event router: registrations and dispatches on a session that never
\* connects.
NextRouter ==
    \/ \E p \in Patterns, c \in Callbacks : register_event(p, c)
    \/ \E n \in EventNames : dispatch_event(n)
    \/ send_awaiting_actions

SpecRouter == InitAnonymous /\ [][NextRouter]_vars

(* ======================= the claims: lifecycle ======================== *)
\* the keepalive timers left once handle h is cancelled
Uncancelled(ts, h) == {t \in ts : t.fn = "ping" /\ t.id # h}

\* exactly one reconnect was scheduled by the step, after reconnect_timeout
OneReconnect ==
    \E t \in ConnectTimers' :
        /\ t \notin ConnectTimers
        /\ t.delay = reconnect_timeout
        /\ ConnectTimers' = ConnectTimers \cup {t}

\* C1: after a connection-loss notification a reconnect is scheduled exactly
\* once, after the reconnect timeout, the keepalive timer is cancelled, and no
\* keepalive tick fires between the loss and the next successful connect.
C1_Claim ==
    [][/\ last'.op = "connection_lost" =>
            /\ OneReconnect
            /\ pinger' = None
            /\ PingTimers' = Uncancelled(timers, pinger)
       /\ last'.op = "ping" => ~loss_pending]_vars

\* C5: in every reachable state at most one keepalive timer and at most one
\* reconnect timer is pending.
C5_Claim ==
    /\ Cardinality(PingTimers) <= 1
    /\ Cardinality(ConnectTimers) <= 1

\* a transport failure was handled: no exception, one reconnect scheduled,
\* connectedness false
Retried ==
    /\ raised' = "none"
    /\ OneReconnect
    /\ ~connected'

\* C6 as stated: every transport failure, a failed attempt as well as a
\* mid-session disconnect, is not raised, schedules a reconnect after the
\* reconnect timeout and notifies a lifecycle hook; connectedness is false
\* after a failed attempt.
C6_Claim ==
    [][/\ (last'.op = "connection_made" /\ last'.arg = "OSError") =>
            Retried /\ soon' # <<>>
       /\ last'.op = "connection_lost" => Retried /\ soon' # <<>>]_vars

\* C6 amended: every transport failure is not raised, schedules one reconnect
\* after the reconnect timeout and leaves connectedness false; a mid-session
\* disconnect notifies the on-disconnect hook, a failed attempt notifies no
\* hook.
C6_Amended ==
    [][/\ (last'.op = "connection_made" /\ last'.arg = "OSError") =>
            Retried /\ soon' = <<>>
       /\ last'.op = "connection_lost" =>
            Retried /\ soon' = <<"on_disconnect">>]_vars

\* a connection attempt failed while the session was connected
C6_Witness ==
    /\ last.op = "connection_made"
    /\ last.arg = "OSError"
    /\ protocol # None
    /\ ~connected
    /\ ConnectTimers # {}

\* C9: when the Login future resolves with a record, authenticated becomes
\* true iff the record's success predicate is true, the on-login hook is
\* scheduled iff it is, nothing is raised, and in both outcomes the existing
\* keepalive timer is cancelled and a new one scheduled after the ping delay.
C9_Login ==
    [][last'.op = "login" =>
        LET resp == actions[login_done].recs[1]
        IN /\ authenticated' = success(resp)
           /\ soon' = IF authenticated' THEN <<"on_login">> ELSE <<>>
           /\ raised' = "none"
           /\ \E t \in PingTimers' :
                /\ t.id = pinger'
                /\ t.delay = ping_delay
                /\ PingTimers' \ {t} = Uncancelled(timers, pinger)
           /\ ConnectTimers' = ConnectTimers]_vars

\* a Login was refused while a keepalive timer was pending: no hook, a new
\* keepalive timer
C9_Witness ==
    /\ last.op = "login"
    /\ last.arg = "Error"
    /\ ~authenticated
    /\ soon = <<>>
    /\ pinger # None
    /\ Cardinality(PingTimers) = 1

\* C10: close() cancels the pending keepalive timer, closes the active
\* transport and schedules no reconnect; after close() and until connect() is
\* called again no keepalive is sent and no connection attempt is made.
C10_Claim ==
    [][/\ last'.op = "close" =>
            /\ pinger' = None
            /\ PingTimers' = Uncancelled(timers, pinger)
            /\ protocol \notin open'
            /\ ConnectTimers' = ConnectTimers
       /\ shutdown => last'.op # "ping"
       /\ shutdown => ~(last'.op = "connect" /\ last'.arg = "timer")]_vars

\* the protocol the action of identity i was handed to
SentOn(i) == sent[CHOOSE k \in 1..Len(sent) : sent[k].id = i].protocol

\* C16: on every successful connect the response table is replaced by an
\* empty one before anything is sent on the new transport: the identities in
\* the table right after the connect are those of the actions that connect
\* itself sent on the new transport, none registered on an earlier connection
\* remains, and in every state the table holds only identities of actions
\* handed to the installed protocol.
C16_Reset ==
    /\ [][last'.op = "connection_made" /\ last'.arg = "ok" =>
            /\ responses' \cap (1..Len(actions)) = {}
            /\ responses' = {sent'[k].id : k \in (Len(sent) + 1)..Len(sent')}
            /\ \A k \in (Len(sent) + 1)..Len(sent') : sent'[k].protocol = protocol']_vars
    /\ [](\A i \in responses :
            /\ \E k \in 1..Len(sent) : sent[k].id = i
            /\ SentOn(i) = protocol)

\* a connect has just succeeded while an action sent on the connection before
\* was still waiting for its response: its identity is no longer in the table
C16_Witness ==
    /\ last.op = "connection_made"
    /\ last.arg = "ok"
    /\ \E i \in 1..Len(actions) :
        /\ actions[i].state = "pending"
        /\ i \notin responses
        /\ \E k \in 1..Len(sent) : sent[k].id = i /\ sent[k].protocol = protocol - 1

\* the positions in the send log of what was handed to protocol p
SentTo(p) == {k \in 1..Len(sent) : sent[k].protocol = p}

\* the Login actions handed to protocol p
LoginsTo(p) == {k \in SentTo(p) : actions[sent[k].id].action = "Login"}

\* C17: on each successful connect exactly one Login is submitted iff a
\* username is configured, authenticated being false right after that connect,
\* and the Login is the first action transmitted on the new transport, before
\* any keepalive and any action drained from the awaiting queue; with no
\* username no Login is ever sent and authenticated stays false.
C17_Login ==
    /\ [][last'.op = "connection_made" /\ last'.arg = "ok" =>
            /\ ~authenticated'
            /\ SentTo(protocol') = {}
            /\ IF username
               THEN /\ Len(sent') = Len(sent) + 1
                    /\ sent'[Len(sent')].protocol = protocol'
                    /\ actions'[sent'[Len(sent')].id].action = "Login"
               ELSE sent' = sent /\ actions' = actions]_vars
    /\ [](\A p \in 1..MaxConnects :
            /\ Cardinality(LoginsTo(p)) = IF username /\ p <= protocol THEN 1 ELSE 0
            /\ \A k \in LoginsTo(p) : \A j \in SentTo(p) : k <= j)
    /\ [](~username => ~authenticated)

\* on one transport the Login was followed by an action drained from the
\* awaiting queue and by a keepalive
C17_Witness ==
    /\ username
    /\ Len(sent) = 3
    /\ SentTo(1) = {1, 2, 3}
    /\ LoginsTo(1) = {1}
    /\ {actions[sent[2].id].action, actions[sent[3].id].action} = {"Status", "Ping"}

\* C18: in every reachable state authenticated is true only while the session
\* is connected: after a connection loss or a failed connection attempt it is
\* false until a Login on a new connection succeeds.
C18_Claim == authenticated => connected

\* C19: in every reachable state a keepalive timer is pending only while the
\* session is connected with an active transport, and no keepalive tick fires
\* (and sends a Ping) while connectedness is false or no open transport is
\* installed, whatever the interleaving of loss, failed attempt, late Login
\* completion and close.
C19_Claim ==
    /\ [](PingTimers # {} => connected /\ protocol \in open)
    /\ [][last'.op = "ping" => connected /\ protocol \in open]_vars

\* C20: the engine owns at most one open transport at a time: processing a
\* connection outcome closes the installed transport before a new one is
\* installed, so after any sequence of connect attempts, overlapping ones
\* included, no transport but the installed one is open.
C20_OneTransport ==
    /\ [](open \subseteq {protocol})
    /\ [][last'.op = "connection_made" =>
            /\ protocol # protocol' => protocol \notin open'
            /\ Cardinality(open') <= 1]_vars

\* a second connect succeeded while the transport of the first was still
\* open: both keepalive timers are pending, only the new transport is open
C20_Witness ==
    /\ last.op = "connection_made"
    /\ last.arg = "ok"
    /\ protocol = 2
    /\ open = {2}
    /\ Cardinality(PingTimers) = 2
    /\ ConnectTimers = {}

(* ==================== the claims: the awaiting queue =================== *)
\* C2: an action submitted through send_action while the engine is not
\* connected is appended to the awaiting queue and handed to no transport,
\* and the call does not fail.
C2_Claim ==
    [][(last'.op = "send_action" /\ ~connected) =>
        /\ raised' = "none"
        /\ Len(awaiting_actions') = Len(awaiting_actions) + 1
        /\ sent' = sent]_vars

\* what a drain step handed to the protocol
Resent == SubSeq(sent', Len(sent) + 1, Len(sent'))
ResentIds == [k \in 1..Len(Resent) |-> Resent[k].id]

Forgettable(i) == lower(actions[i].action) \in {"ping", "login"}
Pending(i) == actions[i].state = "pending"
NotForgettable(i) == ~Forgettable(i)
Live(i) == ~Forgettable(i) /\ Pending(i)

Queued(i) == \E k \in 1..Len(awaiting_actions) : awaiting_actions[k] = i
Resubmitted(i) == \E k \in 1..Len(Resent) : Resent[k].id = i

MatchedSubscriptions ==
    {i \in 1..Len(patterns) :
        regexp_match(compile(patterns[i].pattern), 1, last.arg, 1)}

\* the position of a pattern in the subscription list
Position(p) == CHOOSE i \in 1..Len(patterns) : patterns[i].pattern = p

\* C7: dispatch of an event of type t invokes every callback registered under
\* every pattern matching t exactly once per registration, in
\* subscription-registration order across patterns and callback-registration
\* order within a pattern, invokes no callback of a pattern that does not
\* match, and returns the matched pattern strings in registration order.
C7_Dispatch ==
    last.op = "dispatch" =>
        /\ \A i \in MatchedSubscriptions :
             \A k \in 1..Len(callbacks[patterns[i].pattern]) :
                Cardinality({j \in 1..Len(invoked) :
                    invoked[j] = [pattern |-> patterns[i].pattern, k |-> k,
                                  callback |-> callbacks[patterns[i].pattern][k]]}) = 1
        /\ \A j \in 1..Len(invoked) :
             /\ Position(invoked[j].pattern) \in MatchedSubscriptions
             /\ invoked[j].k \in 1..Len(callbacks[invoked[j].pattern])
        /\ \A j1, j2 \in 1..Len(invoked) :
             j1 < j2 =>
                \/ Position(invoked[j1].pattern) < Position(invoked[j2].pattern)
                \/ /\ invoked[j1].pattern = invoked[j2].pattern
                   /\ invoked[j1].k < invoked[j2].k
        /\ Len(matches) = Cardinality(MatchedSubscriptions)
        /\ \A j \in 1..Len(matches) : Position(matches[j]) \in MatchedSubscriptions
        /\ \A j1, j2 \in 1..Len(matches) :
             j1 < j2 => Position(matches[j1]) < Position(matches[j2])

\* a dispatch that matched two patterns, one of them with two callbacks, and
\* left a registered pattern unmatched
C7_Witness ==
    /\ last.op = "dispatch"
    /\ Len(matches) = 2
    /\ Len(invoked) = 3
    /\ Len(patterns) = 3
    /\ \E j \in 1..Len(invoked) : invoked[j].k = 2

\* the pattern strings of the subscription list, in order
Subscribed == [i \in 1..Len(patterns) |-> patterns[i].pattern]

\* the pattern has an entry in the subscription list
Known(p) == \E i \in 1..Len(patterns) : patterns[i].pattern = p

\* C11: after any sequence of register_event calls the subscription list holds
\* exactly one (pattern, matcher) entry per distinct registered pattern, the
\* matcher being the pattern's compiled glob, in order of first registration;
\* a registration under a known pattern appends the callback to that pattern's
\* list and leaves the subscription list (entries and matchers) as it was, a
\* registration under a new pattern appends one entry at the end, and
\* register_event returns the callback it was given.
C11_Registered ==
    /\ [](/\ \A i, j \in 1..Len(patterns) :
              patterns[i].pattern = patterns[j].pattern => i = j
          /\ \A p \in Patterns : Known(p) <=> callbacks[p] # <<>>
          /\ \A i \in 1..Len(patterns) :
              patterns[i].regexp = compile(patterns[i].pattern))
    /\ [][last'.op = "register_event" =>
            LET p == last'.arg.pattern
            IN /\ callbacks' = [callbacks EXCEPT ![p] = Append(@, last'.arg.callback)]
               /\ Known(p) => patterns' = patterns
               /\ ~Known(p) =>
                    /\ Len(patterns') = Len(patterns) + 1
                    /\ SubSeq(patterns', 1, Len(patterns)) = patterns
                    /\ patterns'[Len(patterns')].pattern = p
               /\ last'.arg.returned = last'.arg.callback]_vars

\* a second callback was just registered under a pattern that was not the
\* first one registered, after a third pattern was registered
C11_Witness ==
    /\ last.op = "register_event"
    /\ Len(patterns) = 3
    /\ Subscribed[2] = last.arg.pattern
    /\ Len(callbacks[last.arg.pattern]) = 2
    /\ callbacks[last.arg.pattern][2] = last.arg.callback

(* ======================= the claims: correlation ====================== *)
\* the identity a record carries: its command id, else its action id
Carried(m) ==
    IF "commandid" \in DOMAIN m THEN m.commandid
    ELSE IF "actionid" \in DOMAIN m THEN m.actionid
    ELSE None

\* the session state a dropped response must leave alone
session == <<connected, protocol, open, authenticated, authenticated_future,
             login_done, awaiting_actions, actions, responses, sent, pinger,
             timers, patterns, callbacks, tasks>>

\* C8: each result sink receives only records carrying its own identity,
\* whatever the order the responses of two outstanding actions arrive in, and
\* a response whose identity matches no registered sink completes no sink and
\* changes no session state.
C8_Correlation ==
    /\ [](\A i \in 1..Len(actions) :
            \A k \in 1..Len(actions[i].recs) : Carried(actions[i].recs[k]) = i)
    /\ [][(/\ last'.op = "handle_message"
           /\ "response" \in DOMAIN last'.arg
           /\ Carried(last'.arg) \notin responses) => UNCHANGED session]_vars

\* two actions were outstanding together and the later one was answered first
C8_Witness ==
    /\ Len(actions) >= 2
    /\ \E i, j \in 1..Len(actions) :
        /\ i < j
        /\ i \in responses
        /\ actions[i].state = "pending"
        /\ actions[j].state = "done"
        /\ \E a, b \in 1..Len(sent) :
             a < b /\ sent[a].id = i /\ sent[b].id = j /\ sent[a].protocol = sent[b].protocol

(* ======================== the claims: the decoder ====================== *)
\* a block was decoded and from_line returned a record
Decoded == last.op = "from_line" /\ last.arg.raised = "none" /\ last.arg.record

\* the header lines of the decoded block: the lines left once the body is
\* taken that contain ": ", in wire order
HeaderLines == SelectSeq(take_body(last.arg.line).mlines, contains_sep)

\* the header names of the block, compared case-insensitively
HeaderNames == {lower(split(HeaderLines[i]).k) : i \in 1..Len(HeaderLines)}

\* the value a header line carries (percent-decoded for a quoted key)
WireValue(mline) ==
    IF lower(split(mline).k) \in quoted_keys
    THEN strip(unquote(split(mline).v))
    ELSE split(mline).v

\* the values of the header lines of that name, in wire order
WireValues(n) ==
    LET named(mline) == lower(split(mline).k) = n
        ls == SelectSeq(HeaderLines, named)
    IN [i \in 1..Len(ls) |-> WireValue(ls[i])]

\* C12: for every decoded block and every header name, names compared
\* case-insensitively: a name occurring once among the header lines is held
\* by the record as a scalar string, its value, and a name occurring n >= 2
\* times is held as the ordered list of all n values in wire order.
C12_Claim ==
    Decoded =>
        \A n \in HeaderNames :
            IF Len(WireValues(n)) = 1
            THEN ~is_list(last.arg.message, n) /\ last.arg.message[n] = WireValues(n)[1]
            ELSE is_list(last.arg.message, n) /\ items(last.arg.message, n) = WireValues(n)

\* C13: the decoder yields a record iff the block's header map contains an
\* 'event' or a 'response' header, the name compared case-insensitively; a
\* block with neither yields no record, and no error is raised.
C13_Claim ==
    last.op = "from_line" =>
        /\ last.arg.raised = "none"
        /\ last.arg.record <=> (HeaderNames \cap {"event", "response"} # {})

\* the block's first line is 'Response: Follows'
Follows == last.arg.line[1] = <<"Response", sep, "Follows">>

\* the position of the last non-empty line of the block
LastNonEmpty ==
    CHOOSE b \in 1..Len(last.arg.line) :
        /\ last.arg.line[b] # <<>>
        /\ \A i \in (b + 1)..Len(last.arg.line) : last.arg.line[i] = <<>>

\* a header line named Response, in any letter case, stands between the first
\* line and the last non-empty one
ResponseAgain ==
    \E i \in 2..(LastNonEmpty - 1) :
        /\ contains_sep(last.arg.line[i])
        /\ lower(split(last.arg.line[i]).k) = "response"

\* C14 as stated: decoding any block whose first line is 'Response: Follows'
\* yields a record whose success is true and whose body equals the last
\* non-empty line of the block, the skipping of blank trailing lines having
\* terminated.
C14_Claim ==
    last.op = "from_line" /\ Follows =>
        /\ Decoded
        /\ success(last.arg.message)
        /\ last.arg.message["content"] = join(last.arg.line[LastNonEmpty])

\* C14 amended: decoding a block whose first line is 'Response: Follows', with
\* a non-empty line after the first and no further header line named Response
\* (in any letter case) before that line, yields a record whose success is
\* true and whose body equals the last non-empty line of the block; the
\* skipping of blank trailing lines stops at that line, the lines before it
\* being left for the headers.
C14_Amended ==
    last.op = "from_line" /\ Follows /\ LastNonEmpty > 1 /\ ~ResponseAgain =>
        /\ Decoded
        /\ success(last.arg.message)
        /\ last.arg.message["content"] = join(last.arg.line[LastNonEmpty])
        /\ Len(take_body(last.arg.line).mlines) = LastNonEmpty - 1

\* a 'Response: Follows' block with its body a line early was decoded
C14_Witness ==
    /\ last.op = "from_line"
    /\ Follows
    /\ Len(last.arg.line) = 3
    /\ last.arg.line[2] = <<"text">>
    /\ last.arg.line[3] = <<>>
    /\ Decoded
    /\ last.arg.message["content"] = "text"

\* C15: record.success is true for every record that has an 'Event' header,
\* whatever its value and its other headers, and otherwise is true iff the
\* 'Response' header equals 'Success', 'Follows' or 'Goodbye': it is false
\* for any other or absent Response value.
C15_Success ==
    Decoded =>
        IF has(last.arg.message, "event")
        THEN success(last.arg.message)
        ELSE success(last.arg.message) <=>
                /\ has(last.arg.message, "response")
                /\ last.arg.message["response"] \in {"Success", "Follows", "Goodbye"}

\* a record with an Event header and a Response header that is no success
C15_Witness ==
    /\ Decoded
    /\ has(last.arg.message, "event")
    /\ has(last.arg.message, "response")
    /\ last.arg.message["response"] = "Error"
    /\ success(last.arg.message)

====
